---- MODULE Spec2Model ----
(***************************************************************************)
(* Model of the Printing and Logging Library (PLL) of the AMC firmware,    *)
(* fw/AMC/src/common/core_libs/pll/pll.c.                                  *)
(*                                                                         *)
(* Tasks call the public operations concurrently.  A call is cut into     *)
(* steps at the accesses to state shared between tasks (the private data   *)
(* xLocalData, the shared-memory log ring and its write index, the         *)
(* semaphore and the mutex); accesses are put into one step only where     *)
(* the sections below say why no other task can tell the difference.       *)
(***************************************************************************)
EXTENDS Integers, Sequences, FiniteSets

(***************************************************************************)
(* Bounds of the model                                                     *)
(***************************************************************************)
\* number of records of the local and of the shared ring (pll.h, scaled)
PLL_LOG_MAX_RECS == 2
\* bytes of one log entry, terminator included (pll.h, scaled)
PLL_LOG_ENTRY_SIZE == 3
\* bytes of the print buffer (pll.h, scaled)
PRINT_BUFFER_SIZE == 4
\* number of valid verbosity levels (pll.h, scaled)
MAX_PLL_OUTPUT_LEVEL == 2
\* number of public calls made in one run, all tasks together
MaxCalls == 3
\* number of public calls made in one run of the single-task specification
MaxCallsSeq == 4
\* width in bits of the stat and error counters (uint32_t, scaled)
CounterBits == 4
\* number of calls of an OSAL primitive that fail in one run
MaxFaults == 1
\* number of public calls made in one run of the specification of all operations
MaxCallsAll == 3
\* number of calls made in one run of the specification of iLogCollect
MaxCallsRecord == 2
\* number of public calls made in one run of the specification of the counters
MaxCallsCounters == 2 ^ CounterBits + 1

(***************************************************************************)
(* Program constants                                                       *)
(***************************************************************************)
UPPER_FIREWALL == "0xBABECAFE"
LOWER_FIREWALL == "0xDEADFACE"
\* what a firewall holds after a write of other code has run over it
OVERWRITTEN == "0x00000000"
\* the line terminators "\r\n" of strtok and strcspn
CR == 13
LF == 10
\* the conversion specification of a format string; the argument replaces it
PCT == 37

Tasks == {1, 2}
SeqTasks == {1}

\* the NULL handle
NULL == 0

PLL_STATS ==
    { "INIT_OVERALL_COMPLETE", "CREATE_MUTEX", "CREATE_SEMAPHORE", "TAKE_MUTEX",
      "RELEASE_MUTEX", "PEND_SEMAPHORE", "POST_SEMAPHORE",
      "THREAD_SAFE_PRINT_COUNT", "NON_THREAD_SAFE_PRINT_COUNT", "LEVEL_CHANGE",
      "LEVEL_RETRIEVAL", "LOG_COLLECT_SUCCESS", "MALLOC", "FREE" }

PLL_ERRORS ==
    { "INIT_TASK_CREATE_FAILED", "INIT_MUTEX_CREATE_FAILED",
      "INIT_SEMAPHORE_CREATE_FAILED", "MUTEX_RELEASE_FAILED", "MUTEX_TAKE_FAILED",
      "PEND_SEMAPHORE", "POST_SEMAPHORE", "VALIDATION_FAILED", "LOAD_PT_FAILED",
      "STORE_PT_FAILED", "LOG_COLLECT_FAILED", "MALLOC_FAILED" }

(***************************************************************************)
(* Inputs                                                                  *)
(***************************************************************************)
\* the levels a caller may pass: the valid ones and one out of range
LevelArgs == 0 .. MAX_PLL_OUTPUT_LEVEL

\* format strings: a NULL pointer, or a string of characters
FormatStrings ==
    { <<PCT>>, <<PCT, CR, LF>>, <<LF>>, [i \in 1 .. (PRINT_BUFFER_SIZE + 1) |-> PCT] }

Formats ==
    { [null |-> TRUE, str |-> <<>>] } \cup
    { [null |-> FALSE, str |-> s] : s \in FormatStrings }

\* contents of the bootloader (FSBL) log region; its characters are 101 ..
FsblBlobs ==
    { <<>>, <<101, LF>>, <<101, LF, 102>>, <<101, CR, LF, 102, LF, 103>> }

(***************************************************************************)
(* String functions                                                        *)
(***************************************************************************)
Take(s, n) == SubSeq(s, 1, IF n < Len(s) THEN n ELSE Len(s))

IsDelim(c) == c = CR \/ c = LF

\* strcspn( s, "\r\n" ): length of the initial segment holding no terminator
StrCSpn(s) ==
    IF \E i \in 1 .. Len(s) : IsDelim(s[i])
    THEN (CHOOSE i \in 1 .. Len(s) :
              IsDelim(s[i]) /\ \A j \in 1 .. (i - 1) : ~IsDelim(s[j])) - 1
    ELSE Len(s)

\* pcOSAL_StrNCpy( dst, src, n ): bounded copy into a zeroed buffer of n bytes
StrNCpy(s, n) == Take(s, n - 1)

\* mutant: the buffer is not cut
CutNowhere(s) == s

\* pcTempBuf[ strcspn( pcTempBuf, "\r\n" ) ] = 0
CutAtTerminator(s) == Take(s, StrCSpn(s))

\* the entry iLogCollect stores for pcBuf
TrimLine(pcBuf) ==
    StrNCpy(CutAtTerminator(StrNCpy(pcBuf, PLL_LOG_ENTRY_SIZE)), PLL_LOG_ENTRY_SIZE)

\* vsnprintf( pcBuffer, PRINT_BUFFER_SIZE, pcFormat, xArgs ) with one argument
Expand(fmt, arg) == [i \in 1 .. Len(fmt) |-> IF fmt[i] = PCT THEN arg ELSE fmt[i]]

Render(fmt, arg) == Take(Expand(fmt, arg), PRINT_BUFFER_SIZE - 1)

\* strtok( s, "\r\n" ) repeated: the non-empty tokens of s, in order
RECURSIVE Tokens(_)
Tokens(s) ==
    IF s = <<>> THEN <<>>
    ELSE IF IsDelim(s[1]) THEN Tokens(Tail(s))
    ELSE LET n == StrCSpn(s)
         IN  <<Take(s, n)>> \o Tokens(SubSeq(s, n + 1, Len(s)))

\* mutant: the counter is raised by two
Inc32Twice(x) == (x + 2) % (2 ^ CounterBits)

\* x++ on a uint32_t
Inc32(x) == (x + 1) % (2 ^ CounterBits)

IncCounter(f, k) == [f EXCEPT ![k] = Inc32(@)]

(***************************************************************************)
(* State                                                                   *)
(***************************************************************************)
VARIABLES
    \* PLL_PRIVATE_DATA xLocalData
    ulUpperFirewall, ulLowerFirewall, iIsInitialised, xOutputLevel,
    xLoggingLevel, pcBootLogs, iBootLogIndex, iIsLogReady, pvMtxHdl, pvSemHdl,
    ulStats, ulErrors,
    \* the OSAL objects: permits of the semaphore, owner of the mutex (0: free),
    \* number of handles created so far
    semCount, mtxOwner, nHandles,
    \* the shared memory: the 32-bit write index at the head of the log-message
    \* descriptor of the partition table, the ring of entries, and the byte
    \* length of the ring that the descriptor declares
    shmLogIdx, shmLog, ulLogMsgBufferLen,
    \* per task: position in the code, and the locals of the running call
    pc, loc,
    \* observers: what the latest call of a task wrote to the console sink, the
    \* lines stored in the local ring so far, the number of public calls made
    \* and of messages rendered,
    \* the task of the latest call, the number of completed
    \* iPLL_SendBootRecords calls, and the lines whose iLogCollect failed while
    \* logging was ready (emit: the line came from vPLL_Output)
    printed, bootHist, nCalls, nMsgs, lastCaller, nSendDone, dropped,
    \* the number of failed calls of OSAL primitives so far
    nFaults

privateVars ==
    <<ulUpperFirewall, ulLowerFirewall, iIsInitialised, xOutputLevel,
      xLoggingLevel, pcBootLogs, iBootLogIndex, iIsLogReady, pvMtxHdl, pvSemHdl>>
counterVars == <<ulStats, ulErrors>>
osalVars == <<semCount, mtxOwner, nHandles>>
shmVars == <<shmLogIdx, shmLog, ulLogMsgBufferLen>>
ghostVars == <<printed, bootHist, nCalls, nMsgs, lastCaller, nSendDone, dropped>>
vars == <<privateVars, counterVars, osalVars, shmVars, pc, loc, ghostVars, nFaults>>

Slots == 0 .. (PLL_LOG_MAX_RECS - 1)

\* the locals of a task that runs no call
NoLocals ==
    [ op |-> "none", ret |-> "none", xLevel |-> 0, pcBuffer |-> <<>>,
      pcBuf |-> <<>>, lcRet |-> "idle", lcStatus |-> "none", ulLogIdx |-> 0,
      alloc |-> FALSE, blob |-> <<>>, recs |-> <<>>, i |-> 0, out |-> 0,
      failed |-> FALSE, isNull |-> FALSE, ulCount |-> 0 ]

\* the value the index word of the shared memory may hold before it is first
\* written: the region is not initialised by this module
InitLogIdx == {0, PLL_LOG_MAX_RECS + 1}

\* bytes of the shared ring: PLL_LOG_MAX_RECS entries of PLL_LOG_ENTRY_SIZE bytes
PLL_LOG_BUF_LEN == PLL_LOG_MAX_RECS * PLL_LOG_ENTRY_SIZE

\* xLocalData, the OSAL objects, the log region and the observers at the start
InitModule ==
    /\ ulUpperFirewall = UPPER_FIREWALL
    /\ ulLowerFirewall = LOWER_FIREWALL
    /\ iIsInitialised = FALSE
    /\ xOutputLevel = 0
    /\ xLoggingLevel = 0
    /\ pcBootLogs = [i \in Slots |-> <<>>]
    /\ iBootLogIndex = 0
    /\ iIsLogReady = FALSE
    /\ pvMtxHdl = NULL
    /\ pvSemHdl = NULL
    /\ ulStats = [k \in PLL_STATS |-> 0]
    /\ ulErrors = [k \in PLL_ERRORS |-> 0]
    /\ semCount = 0
    /\ mtxOwner = 0
    /\ nHandles = 0
    /\ shmLogIdx \in InitLogIdx
    /\ shmLog = [i \in Slots |-> <<>>]
    /\ pc = [t \in Tasks |-> "idle"]
    /\ loc = [t \in Tasks |-> NoLocals]
    /\ printed = [t \in Tasks |-> <<>>]
    /\ bootHist = <<>>
    /\ nCalls = 0
    /\ nMsgs = 0
    /\ lastCaller = 0
    /\ nSendDone = 0
    /\ dropped = {}
    /\ nFaults = 0

\* the start with a descriptor that declares the whole ring
Init == InitModule /\ ulLogMsgBufferLen = PLL_LOG_BUF_LEN

\* the lengths a descriptor may declare: the partition table is written by
\* another processor and is not checked when it is loaded
LogMsgBufferLens ==
    { PLL_LOG_BUF_LEN - PLL_LOG_ENTRY_SIZE, PLL_LOG_BUF_LEN,
      PLL_LOG_BUF_LEN + PLL_LOG_ENTRY_SIZE }

\* the start with any of these descriptors
InitAll == InitModule /\ ulLogMsgBufferLen \in LogMsgBufferLens

(***************************************************************************)
(* Helpers of the actions                                                  *)
(***************************************************************************)
\* mutant: the lower firewall is not tested
FirewallsOKUpperOnly == ulUpperFirewall = UPPER_FIREWALL

FirewallsOK ==
    /\ ulUpperFirewall = UPPER_FIREWALL
    /\ ulLowerFirewall = LOWER_FIREWALL

\* the observers at the start of a public call `op` of task t, which has
\* rendered `n` messages and written `out` to the console sink when its first
\* step is over
CallStart(t, op, n, out) ==
    /\ pc[t] = "idle"
    /\ nCalls' = nCalls + 1
    /\ nMsgs' = nMsgs + n
    /\ lastCaller' = t
    /\ printed' = [printed EXCEPT ![t] = out]
    /\ UNCHANGED <<bootHist, nSendDone, dropped>>

\* the outcome of a call of an OSAL primitive: success, or one more failure
Outcome(ok) ==
    /\ ok \/ nFaults < MaxFaults
    /\ nFaults' = IF ok THEN nFaults ELSE nFaults + 1

\* the locals of a call that has returned iStatus
Returned(op, iStatus) == [NoLocals EXCEPT !.op = op, !.ret = iStatus]

\* mutant: the message is written twice
PRINTTwice(t, pcBuffer) ==
    printed' = [printed EXCEPT ![t] = Append(Append(@, pcBuffer), pcBuffer)]

\* PRINT( "%s", pcBuffer ): the console sink
PRINT(t, pcBuffer) == printed' = [printed EXCEPT ![t] = Append(@, pcBuffer)]

(***************************************************************************)
(* iPLL_Initialise                                                         *)
(***************************************************************************)
\* mutant: the test of iIsInitialised is missing
InitialiseValidNoInitTest == FirewallsOK

InitialiseValid == FirewallsOK /\ iIsInitialised = FALSE

\* mutant: a failed iOSAL_Mutex_Create is counted as a failed task creation
MutexCreateFailedAsTask == "INIT_TASK_CREATE_FAILED"

\* INC_ERROR_COUNTER( PLL_ERRORS_INIT_MUTEX_CREATE_FAILED )
MutexCreateFailed == "INIT_MUTEX_CREATE_FAILED"

iPLL_Initialise(t, xOut, xLog) ==
    /\ CallStart(t, "Initialise", 0, <<>>)
    /\ UNCHANGED <<ulUpperFirewall, ulLowerFirewall, pcBootLogs, iBootLogIndex,
                   iIsLogReady, shmVars, pc, mtxOwner>>
    /\ IF InitialiseValid
       THEN \E mtxOk, semOk \in BOOLEAN :
              /\ ~mtxOk => semOk
              /\ Outcome(mtxOk /\ semOk)
              /\ IF ~mtxOk
                 THEN \* iOSAL_Mutex_Create failed
                      /\ ulErrors' = IncCounter(ulErrors, MutexCreateFailed)
                      /\ loc' = [loc EXCEPT ![t] = Returned("Initialise", "ERROR")]
                      /\ UNCHANGED <<iIsInitialised, xOutputLevel, xLoggingLevel,
                                     pvMtxHdl, pvSemHdl, ulStats, semCount, nHandles>>
                 ELSE IF ~semOk
                 THEN \* the mutex is created, iOSAL_Semaphore_Create failed
                      /\ pvMtxHdl' = nHandles + 1
                      /\ nHandles' = nHandles + 1
                      /\ ulErrors' = IncCounter(ulErrors, "INIT_SEMAPHORE_CREATE_FAILED")
                      /\ loc' = [loc EXCEPT ![t] = Returned("Initialise", "ERROR")]
                      /\ UNCHANGED <<iIsInitialised, xOutputLevel, xLoggingLevel,
                                     pvSemHdl, ulStats, semCount>>
                 ELSE /\ pvMtxHdl' = nHandles + 1
                      /\ pvSemHdl' = nHandles + 2
                      /\ nHandles' = nHandles + 2
                      /\ semCount' = 1
                      /\ ulStats' = IncCounter(IncCounter(IncCounter(ulStats,
                                       "CREATE_MUTEX"), "CREATE_SEMAPHORE"),
                                       "INIT_OVERALL_COMPLETE")
                      /\ xOutputLevel' = xOut
                      /\ xLoggingLevel' = xLog
                      /\ iIsInitialised' = TRUE
                      /\ loc' = [loc EXCEPT ![t] = Returned("Initialise", "OK")]
                      /\ UNCHANGED ulErrors
       ELSE /\ ulErrors' = IncCounter(ulErrors, "VALIDATION_FAILED")
            /\ loc' = [loc EXCEPT ![t] = Returned("Initialise", "ERROR")]
            /\ UNCHANGED <<iIsInitialised, xOutputLevel, xLoggingLevel, pvMtxHdl,
                           pvSemHdl, ulStats, semCount, nHandles, nFaults>>

(***************************************************************************)
(* iPLL_SetOutputLevel, iPLL_GetOutputLevel, iPLL_SetLoggingLevel,         *)
(* iPLL_GetLoggingLevel                                                    *)
(***************************************************************************)
LevelOps == {"SetOutputLevel", "GetOutputLevel", "SetLoggingLevel", "GetLoggingLevel"}

IsSetter(op) == op \in {"SetOutputLevel", "SetLoggingLevel"}

\* mutant: the argument is not checked
LevelArgUnchecked(op, xLevel, isNull) == TRUE

\* the argument check: the level of a setter, the pointer of a getter
LevelArgValid(op, xLevel, isNull) ==
    IF IsSetter(op) THEN MAX_PLL_OUTPUT_LEVEL > xLevel ELSE ~isNull

\* the validation and the entry of the call
LevelCall(t, op, xLevel, isNull) ==
    /\ UNCHANGED nFaults
    /\ CallStart(t, op, 0, <<>>)
    /\ UNCHANGED <<privateVars, ulStats, osalVars, shmVars>>
    /\ IF FirewallsOK /\ iIsInitialised = TRUE /\ LevelArgValid(op, xLevel, isNull)
       THEN /\ pc' = [pc EXCEPT ![t] = "lvl_take"]
            /\ loc' = [loc EXCEPT ![t] =
                         [NoLocals EXCEPT !.op = op, !.xLevel = xLevel,
                                          !.isNull = isNull]]
            /\ UNCHANGED ulErrors
       ELSE /\ ulErrors' = IncCounter(ulErrors, "VALIDATION_FAILED")
            /\ loc' = [loc EXCEPT ![t] = Returned(op, "ERROR")]
            /\ UNCHANGED pc

\* mutant: a failed take is counted as a failed release
MutexTakeFailedAsRelease == "MUTEX_RELEASE_FAILED"

\* INC_ERROR_COUNTER( PLL_ERRORS_MUTEX_TAKE_FAILED )
MutexTakeFailed == "MUTEX_TAKE_FAILED"

\* iOSAL_Mutex_Take( pxThis->pvMtxHdl, OSAL_TIMEOUT_WAIT_FOREVER ) and, when
\* it succeeds, the access to the field under the mutex
Level_TakeAndAccess(t) ==
    /\ pc[t] = "lvl_take"
    /\ mtxOwner = 0
    /\ UNCHANGED <<ulUpperFirewall, ulLowerFirewall, iIsInitialised, pcBootLogs,
                   iBootLogIndex, iIsLogReady, pvMtxHdl, pvSemHdl, semCount,
                   nHandles, shmVars, ghostVars>>
    /\ \E ok \in BOOLEAN :
         /\ Outcome(ok)
         /\ IF ok
            THEN /\ mtxOwner' = t
                 /\ pc' = [pc EXCEPT ![t] = "lvl_release"]
                 /\ xOutputLevel' = IF loc[t].op = "SetOutputLevel"
                                    THEN loc[t].xLevel ELSE xOutputLevel
                 /\ xLoggingLevel' = IF loc[t].op = "SetLoggingLevel"
                                     THEN loc[t].xLevel ELSE xLoggingLevel
                 /\ loc' = [loc EXCEPT ![t].out =
                              IF loc[t].op = "GetOutputLevel" THEN xOutputLevel
                              ELSE IF loc[t].op = "GetLoggingLevel" THEN xLoggingLevel
                              ELSE @]
                 /\ ulStats' = IncCounter(IncCounter(ulStats, "TAKE_MUTEX"),
                                  IF IsSetter(loc[t].op) THEN "LEVEL_CHANGE"
                                  ELSE "LEVEL_RETRIEVAL")
                 /\ UNCHANGED ulErrors
            ELSE /\ ulErrors' = IncCounter(ulErrors, MutexTakeFailed)
                 /\ pc' = [pc EXCEPT ![t] = "idle"]
                 /\ loc' = [loc EXCEPT ![t] = Returned(loc[t].op, "ERROR")]
                 /\ UNCHANGED <<xOutputLevel, xLoggingLevel, mtxOwner, ulStats>>

\* iOSAL_Mutex_Release( pxThis->pvMtxHdl ); a failed release leaves the mutex taken
Level_Release(t) ==
    /\ pc[t] = "lvl_release"
    /\ pc' = [pc EXCEPT ![t] = "idle"]
    /\ UNCHANGED <<privateVars, semCount, nHandles, shmVars, ghostVars>>
    /\ \E ok \in BOOLEAN :
         /\ Outcome(ok)
         /\ IF ok
            THEN /\ mtxOwner' = 0
                 /\ ulStats' = IncCounter(ulStats, "RELEASE_MUTEX")
                 /\ loc' = [loc EXCEPT ![t] =
                              [Returned(loc[t].op, "OK") EXCEPT !.out = loc[t].out]]
                 /\ UNCHANGED ulErrors
            ELSE /\ ulErrors' = IncCounter(ulErrors, "MUTEX_RELEASE_FAILED")
                 /\ loc' = [loc EXCEPT ![t] =
                              [Returned(loc[t].op, "ERROR") EXCEPT !.out = loc[t].out]]
                 /\ UNCHANGED <<mtxOwner, ulStats>>

(***************************************************************************)
(* iLogCollect: called by vPLL_Output and by iPLL_SendBootRecords.  The    *)
(* caller stores the text in pcBuf and the place to return to in lcRet.    *)
(*                                                                         *)
(* Steps: the test of iIsLogReady with the first access of the branch      *)
(* taken (the load of the descriptor and HAL_IO_READ32 of the index, or    *)
(* the advance of iBootLogIndex), then the write of the entry (with        *)
(* HAL_IO_WRITE32 of the index).  No other code reads iBootLogIndex, and   *)
(* none reads both the ring and its index, so the accesses joined in one   *)
(* step commute with the steps of the other tasks.                         *)
(***************************************************************************)
\* l: the locals of the caller at the call
LogCollectCall(t, l, pcBuf, lcRet) ==
    /\ pc' = [pc EXCEPT ![t] = "lc_entry"]
    /\ loc' = [loc EXCEPT ![t] =
                 [l EXCEPT !.pcBuf = pcBuf, !.lcRet = lcRet, !.lcStatus = "none"]]

LogCollectPcs == {"lc_entry", "lc_store", "lb_store"}

\* mutant: the local index does not advance
NextBootLogIndexStuck(i) == i % PLL_LOG_MAX_RECS

\* the local index after one more line: ( iBootLogIndex + 1 ) % PLL_LOG_MAX_RECS
NextBootLogIndex(i) == (i + 1) % PLL_LOG_MAX_RECS

\* the shared index after one more line: ( ulLogIdx + 1 ) % PLL_LOG_MAX_RECS
NextLogIdx(i) == (i + 1) % PLL_LOG_MAX_RECS

\* the return to the caller with iStatus; vPLL_Output counts the status
LogCollectReturn(t, iStatus) ==
    /\ loc' = [loc EXCEPT ![t].lcStatus = iStatus, ![t].pcBuf = <<>>,
                          ![t].ulLogIdx = 0,
                          ![t].failed = (@ \/ iStatus = "ERROR")]
    /\ IF loc[t].lcRet = "out_logged"
       THEN /\ pc' = [pc EXCEPT ![t] = "out_post"]
            /\ IF iStatus = "OK"
               THEN /\ ulStats' = IncCounter(ulStats, "LOG_COLLECT_SUCCESS")
                    /\ ulErrors' = ulErrors
               ELSE /\ ulStats' = ulStats
                    /\ ulErrors' = IncCounter(ulErrors, "LOG_COLLECT_FAILED")
       ELSE /\ pc' = [pc EXCEPT ![t] = loc[t].lcRet]
            /\ UNCHANGED <<ulStats, ulErrors>>

\* the return with ERROR after the error counter k was raised; vPLL_Output
\* raises PLL_ERRORS_LOG_COLLECT_FAILED as well
LogCollectFail(t, k) ==
    /\ dropped' = dropped \cup { [line |-> TrimLine(loc[t].pcBuf),
                                   emit |-> loc[t].lcRet = "out_logged"] }
    /\ loc' = [loc EXCEPT ![t].lcStatus = "ERROR", ![t].pcBuf = <<>>,
                          ![t].ulLogIdx = 0, ![t].failed = TRUE]
    /\ IF loc[t].lcRet = "out_logged"
       THEN /\ pc' = [pc EXCEPT ![t] = "out_post"]
            /\ ulErrors' = IncCounter(IncCounter(ulErrors, k), "LOG_COLLECT_FAILED")
       ELSE /\ pc' = [pc EXCEPT ![t] = loc[t].lcRet]
            /\ ulErrors' = IncCounter(ulErrors, k)
    /\ UNCHANGED ulStats

\* if( TRUE == pxThis->iIsLogReady ): the partition table is loaded and the
\* index read, or the load fails; else the local index is advanced
LogCollect_Entry(t) ==
    /\ pc[t] = "lc_entry"
    /\ UNCHANGED <<ulUpperFirewall, ulLowerFirewall, iIsInitialised, xOutputLevel,
                   xLoggingLevel, pcBootLogs, iIsLogReady, pvMtxHdl, pvSemHdl,
                   osalVars, shmVars, printed, bootHist, nCalls, nMsgs,
                   lastCaller, nSendDone>>
    /\ IF iIsLogReady = TRUE
       THEN /\ UNCHANGED iBootLogIndex
            /\ \E ok \in BOOLEAN :
                 /\ Outcome(ok)
                 /\ IF ok
                    THEN /\ loc' = [loc EXCEPT ![t].ulLogIdx = shmLogIdx]
                         /\ pc' = [pc EXCEPT ![t] = "lc_store"]
                         /\ UNCHANGED <<counterVars, dropped>>
                    ELSE LogCollectFail(t, "LOAD_PT_FAILED")
       ELSE /\ iBootLogIndex' = NextBootLogIndex(iBootLogIndex)
            /\ pc' = [pc EXCEPT ![t] = "lb_store"]
            /\ UNCHANGED <<counterVars, loc, nFaults, dropped>>

\* the trimmed entry is copied into the ring at ulLogIdx and flushed and the
\* advanced index written back, or the copy fails; an index outside the ring
\* addresses memory behind it
LogCollect_Store(t) ==
    /\ pc[t] = "lc_store"
    /\ UNCHANGED <<privateVars, osalVars, ulLogMsgBufferLen, printed, bootHist,
                   nCalls, nMsgs, lastCaller, nSendDone>>
    /\ \E ok \in BOOLEAN :
         /\ Outcome(ok)
         /\ IF ok
            THEN /\ shmLog' = IF loc[t].ulLogIdx \in Slots
                              THEN [shmLog EXCEPT ![loc[t].ulLogIdx] = TrimLine(loc[t].pcBuf)]
                              ELSE shmLog
                 /\ shmLogIdx' = NextLogIdx(loc[t].ulLogIdx)
                 /\ LogCollectReturn(t, "OK")
                 /\ UNCHANGED dropped
            ELSE /\ LogCollectFail(t, "STORE_PT_FAILED")
                 /\ UNCHANGED <<shmLogIdx, shmLog>>

\* pcOSAL_StrNCpy( pxThis->pcBootLogs[ pxThis->iBootLogIndex ], pcTempBuf, ... )
LogCollect_BootStore(t) ==
    /\ UNCHANGED nFaults
    /\ pc[t] = "lb_store"
    /\ pcBootLogs' = [pcBootLogs EXCEPT ![iBootLogIndex] = TrimLine(loc[t].pcBuf)]
    /\ bootHist' = Append(bootHist, TrimLine(loc[t].pcBuf))
    /\ LogCollectReturn(t, "OK")
    /\ UNCHANGED <<ulUpperFirewall, ulLowerFirewall, iIsInitialised, xOutputLevel,
                   xLoggingLevel, iBootLogIndex, iIsLogReady, pvMtxHdl, pvSemHdl,
                   osalVars, shmVars, printed, nCalls, nMsgs, lastCaller, nSendDone, dropped>>

(***************************************************************************)
(* vPLL_Output                                                             *)
(***************************************************************************)
\* NULL != pcFormat and PRINT_BUFFER_SIZE >= strlen( pcFormat )
FormatValid(fmt) == ~fmt.null /\ PRINT_BUFFER_SIZE >= Len(fmt.str)

\* mutant: the comparison is strict
LevelGateStrict(xThreshold, xLevel) == xThreshold > xLevel

\* the level check of a sink: pxThis->xOutputLevel >= xOutputLevel
LevelGate(xThreshold, xLevel) == xThreshold >= xLevel

\* mutant: the pend succeeds without a permit
PendSucceedsAlways == TRUE

\* the semaphore pend succeeds when a permit is there; it times out after
\* OSAL_TIMEOUT_TASK_WAIT_MS without one
PendSucceeds == semCount > 0

\* mutant: the pend waits for ever
PendNeverTimesOut == FALSE

PendTimesOut == semCount = 0

\* mutant: the timeout branch drops the message
TimeoutOutputDropped(pcBuffer) == <<>>

\* what the timeout branch writes to the console sink
TimeoutOutput(pcBuffer) == <<pcBuffer>>

\* the validation, and the rendering of the message; the argument of the
\* format is the number of the call
vPLL_Output(t, xLevel, fmt) ==
    /\ UNCHANGED nFaults
    /\ CallStart(t, "Output",
                 IF FirewallsOK /\ iIsInitialised = TRUE /\ FormatValid(fmt)
                 THEN 1 ELSE 0, <<>>)
    /\ UNCHANGED <<privateVars, ulStats, osalVars, shmVars>>
    /\ IF FirewallsOK /\ iIsInitialised = TRUE /\ FormatValid(fmt)
       THEN /\ pc' = [pc EXCEPT ![t] = "out_pend"]
            /\ loc' = [loc EXCEPT ![t] =
                         [NoLocals EXCEPT !.op = "Output", !.xLevel = xLevel,
                                          !.pcBuffer = Render(fmt.str, nMsgs + 1)]]
            /\ UNCHANGED ulErrors
       ELSE /\ ulErrors' = IncCounter(ulErrors, "VALIDATION_FAILED")
            /\ loc' = [loc EXCEPT ![t] = Returned("Output", "none")]
            /\ UNCHANGED pc

\* iOSAL_Semaphore_Pend succeeded
Output_PendOk(t) ==
    /\ UNCHANGED nFaults
    /\ pc[t] = "out_pend"
    /\ PendSucceeds
    /\ semCount' = semCount - 1
    /\ ulStats' = IncCounter(ulStats, "PEND_SEMAPHORE")
    /\ pc' = [pc EXCEPT ![t] = "out_print"]
    /\ UNCHANGED <<privateVars, ulErrors, mtxOwner, nHandles, shmVars, loc, ghostVars>>

\* iOSAL_Semaphore_Pend timed out: the message goes to the console, unguarded
Output_PendTimeout(t) ==
    /\ UNCHANGED nFaults
    /\ pc[t] = "out_pend"
    /\ PendTimesOut
    /\ printed' = [printed EXCEPT ![t] = @ \o TimeoutOutput(loc[t].pcBuffer)]
    /\ ulStats' = IncCounter(ulStats, "NON_THREAD_SAFE_PRINT_COUNT")
    /\ pc' = [pc EXCEPT ![t] = "idle"]
    /\ loc' = [loc EXCEPT ![t] = Returned("Output", "none")]
    /\ UNCHANGED <<privateVars, ulErrors, osalVars, shmVars, bootHist, nCalls,
                   nMsgs, lastCaller, nSendDone, dropped>>

\* the check of the output level, and the print
Output_Print(t) ==
    /\ UNCHANGED nFaults
    /\ pc[t] = "out_print"
    /\ pc' = [pc EXCEPT ![t] = "out_log"]
    /\ IF LevelGate(xOutputLevel, loc[t].xLevel)
       THEN /\ PRINT(t, loc[t].pcBuffer)
            /\ ulStats' = IncCounter(ulStats, "THREAD_SAFE_PRINT_COUNT")
       ELSE UNCHANGED <<printed, ulStats>>
    /\ UNCHANGED <<privateVars, ulErrors, osalVars, shmVars, loc, bootHist, nCalls,
                   nMsgs, lastCaller, nSendDone, dropped>>

\* the check of the logging level, and the call of iLogCollect
Output_Log(t) ==
    /\ UNCHANGED nFaults
    /\ pc[t] = "out_log"
    /\ IF LevelGate(xLoggingLevel, loc[t].xLevel)
       THEN LogCollectCall(t, loc[t], loc[t].pcBuffer, "out_logged")
       ELSE /\ pc' = [pc EXCEPT ![t] = "out_post"]
            /\ UNCHANGED loc
    /\ UNCHANGED <<privateVars, counterVars, osalVars, shmVars, ghostVars>>

\* the return of vPLL_Output or vPLL_Printf: to the task, or to the loop of
\* iPLL_DumpLog that called vPLL_Printf
PrintReturn(t) ==
    IF loc[t].op = "DumpLog"
    THEN /\ pc' = [pc EXCEPT ![t] = "dl_next"]
         /\ UNCHANGED loc
    ELSE /\ pc' = [pc EXCEPT ![t] = "idle"]
         /\ loc' = [loc EXCEPT ![t] = Returned(loc[t].op, "none")]

\* iOSAL_Semaphore_Post of vPLL_Output and vPLL_Printf, and the return; a
\* failed post gives no permit back
Semaphore_Post(t) ==
    /\ pc[t] \in {"out_post", "prt_post"}
    /\ PrintReturn(t)
    /\ \E ok \in BOOLEAN :
         /\ Outcome(ok)
         /\ IF ok
            THEN /\ semCount' = semCount + 1
                 /\ ulStats' = IncCounter(ulStats, "POST_SEMAPHORE")
                 /\ UNCHANGED ulErrors
            ELSE /\ ulErrors' = IncCounter(ulErrors, "POST_SEMAPHORE")
                 /\ UNCHANGED <<semCount, ulStats>>
    /\ UNCHANGED <<privateVars, mtxOwner, nHandles, shmVars, ghostVars>>

(***************************************************************************)
(* vPLL_Printf                                                             *)
(***************************************************************************)
vPLL_Printf(t, fmt) ==
    /\ UNCHANGED nFaults
    /\ pc[t] = "idle"
    /\ UNCHANGED <<privateVars, osalVars, shmVars>>
    /\ IF FirewallsOK /\ FormatValid(fmt)
       THEN IF iIsInitialised = TRUE
            THEN /\ CallStart(t, "Printf", 1, <<>>)
                 /\ pc' = [pc EXCEPT ![t] = "prt_pend"]
                 /\ loc' = [loc EXCEPT ![t] =
                              [NoLocals EXCEPT !.op = "Printf",
                                               !.pcBuffer = Render(fmt.str, nMsgs + 1)]]
                 /\ UNCHANGED counterVars
            ELSE \* not thread safe - module not initialised
                 /\ CallStart(t, "Printf", 1, <<Render(fmt.str, nMsgs + 1)>>)
                 /\ ulStats' = IncCounter(ulStats, "NON_THREAD_SAFE_PRINT_COUNT")
                 /\ loc' = [loc EXCEPT ![t] = Returned("Printf", "none")]
                 /\ UNCHANGED <<pc, ulErrors>>
       ELSE /\ CallStart(t, "Printf", 0, <<>>)
            /\ ulErrors' = IncCounter(ulErrors, "VALIDATION_FAILED")
            /\ loc' = [loc EXCEPT ![t] = Returned("Printf", "none")]
            /\ UNCHANGED <<pc, ulStats>>

\* the pend succeeded: the print under the semaphore
Printf_PendOk(t) ==
    /\ UNCHANGED nFaults
    /\ pc[t] = "prt_pend"
    /\ PendSucceeds
    /\ semCount' = semCount - 1
    /\ PRINT(t, loc[t].pcBuffer)
    /\ ulStats' = IncCounter(IncCounter(ulStats, "PEND_SEMAPHORE"),
                             "THREAD_SAFE_PRINT_COUNT")
    /\ pc' = [pc EXCEPT ![t] = "prt_post"]
    /\ UNCHANGED <<privateVars, ulErrors, mtxOwner, nHandles, shmVars, loc, bootHist,
                   nCalls, nMsgs, lastCaller, nSendDone, dropped>>

\* the pend timed out
Printf_PendTimeout(t) ==
    /\ UNCHANGED nFaults
    /\ pc[t] = "prt_pend"
    /\ PendTimesOut
    /\ PRINT(t, loc[t].pcBuffer)
    /\ ulStats' = IncCounter(ulStats, "NON_THREAD_SAFE_PRINT_COUNT")
    /\ PrintReturn(t)
    /\ UNCHANGED <<privateVars, ulErrors, osalVars, shmVars, bootHist, nCalls,
                   nMsgs, lastCaller, nSendDone, dropped>>

(***************************************************************************)
(* iPLL_SendBootRecords                                                    *)
(*                                                                         *)
(* The first step is the code up to the loop over the FSBL records: the    *)
(* reset of the shared index, the write of iIsLogReady, and the            *)
(* allocation, copy and tokenising of the FSBL log, which touch no state   *)
(* of another task.  Each turn of a loop is a step.                        *)
(***************************************************************************)
\* mutant: the flag is toggled
LogReadyToggled == ~iIsLogReady

\* the value written to pxThis->iIsLogReady
LogReadyWritten == TRUE

\* mutant: the tokens are taken last first
FsblRecordsReversed(blob) ==
    LET toks == Tokens(blob)
    IN  [k \in 1 .. Len(toks) |-> toks[Len(toks) + 1 - k]]

\* the records of the FSBL log: the tokens of the blob
FsblRecords(blob) == Tokens(blob)

\* mutant: the loop runs while a current token is there
FsblHasCurrent(recs) == Len(recs) >= 1

\* while( NULL != pcNextMessage ): a current and a next token are there
FsblHasNext(recs) == Len(recs) >= 2

\* mutant: no slot is taken as used
BootSlotUsedNever(entry) == FALSE

\* if( '\0' != pxThis->pcBootLogs[ i ][ 0 ] )
BootSlotUsed(entry) == entry # <<>>

iPLL_SendBootRecords(t) ==
    /\ CallStart(t, "SendBootRecords", 0, <<>>)
    /\ UNCHANGED <<ulUpperFirewall, ulLowerFirewall, iIsInitialised, xOutputLevel,
                   xLoggingLevel, pcBootLogs, iBootLogIndex, pvMtxHdl, pvSemHdl,
                   osalVars, shmLog, ulLogMsgBufferLen>>
    /\ IF FirewallsOK
       THEN /\ shmLogIdx' = 0
            /\ iIsLogReady' = LogReadyWritten
            /\ pc' = [pc EXCEPT ![t] = "sbr_fsbl"]
            /\ UNCHANGED ulErrors
            /\ \E ok \in BOOLEAN, blob \in FsblBlobs :
                 /\ Outcome(ok)
                 /\ IF ok
                    THEN /\ ulStats' = IncCounter(ulStats, "MALLOC")
                         /\ loc' = [loc EXCEPT ![t] =
                                      [NoLocals EXCEPT !.op = "SendBootRecords",
                                                       !.alloc = TRUE,
                                                       !.blob = blob,
                                                       !.recs = FsblRecords(blob)]]
                    ELSE \* no buffer: nothing is read
                         /\ blob = <<>>
                         /\ loc' = [loc EXCEPT ![t] =
                                      [NoLocals EXCEPT !.op = "SendBootRecords"]]
                         /\ UNCHANGED ulStats
       ELSE /\ ulErrors' = IncCounter(ulErrors, "VALIDATION_FAILED")
            /\ loc' = [loc EXCEPT ![t] = Returned("SendBootRecords", "ERROR")]
            /\ UNCHANGED <<pc, shmLogIdx, iIsLogReady, ulStats, nFaults>>

\* one turn of the loop over the FSBL records; or its end, vOSAL_MemFree and
\* iOSAL_Task_SleepMs( PLL_SLEEP_INTERVAL_MS )
SendBootRecords_Fsbl(t) ==
    /\ UNCHANGED nFaults
    /\ pc[t] = "sbr_fsbl"
    /\ UNCHANGED <<privateVars, ulErrors, osalVars, shmVars, ghostVars>>
    /\ IF loc[t].alloc /\ FsblHasNext(loc[t].recs)
       THEN /\ LogCollectCall(t, [loc[t] EXCEPT !.recs = Tail(@)],
                              Head(loc[t].recs), "sbr_fsbl")
            /\ UNCHANGED ulStats
       ELSE /\ ulStats' = IF loc[t].alloc THEN IncCounter(ulStats, "FREE") ELSE ulStats
            /\ pc' = [pc EXCEPT ![t] = "sbr_boot"]
            /\ loc' = [loc EXCEPT ![t].recs = <<>>, ![t].i = 0]

\* one turn of the loop over the local boot records, or its end and the return
SendBootRecords_Boot(t) ==
    /\ UNCHANGED nFaults
    /\ pc[t] = "sbr_boot"
    /\ UNCHANGED <<privateVars, counterVars, osalVars, shmVars, printed, bootHist,
                   nCalls, nMsgs, lastCaller, dropped>>
    /\ IF loc[t].i < PLL_LOG_MAX_RECS
       THEN /\ UNCHANGED nSendDone
            /\ IF BootSlotUsed(pcBootLogs[loc[t].i])
               THEN LogCollectCall(t, [loc[t] EXCEPT !.i = @ + 1],
                                   pcBootLogs[loc[t].i], "sbr_boot")
               ELSE /\ loc' = [loc EXCEPT ![t].i = @ + 1]
                    /\ UNCHANGED pc
       ELSE /\ pc' = [pc EXCEPT ![t] = "idle"]
            /\ loc' = [loc EXCEPT ![t] = Returned("SendBootRecords", "OK")]
            /\ nSendDone' = nSendDone + 1

(***************************************************************************)
(* The increment of PLL_ERRORS_VALIDATION_FAILED of the operations below:  *)
(* pxThis->ulErrors[ x ]++ is a load and a store, and another task may run *)
(* between the two.                                                        *)
(***************************************************************************)
\* the validation of the call `op` failed: the counter is loaded
ValidationFailedCall(t, op) ==
    /\ pc' = [pc EXCEPT ![t] = "inc_store"]
    /\ loc' = [loc EXCEPT ![t] =
                 [NoLocals EXCEPT !.op = op,
                                  !.ulCount = ulErrors["VALIDATION_FAILED"]]]

\* the loaded value plus one is stored, and the call returns ERROR
IncError_Store(t) ==
    /\ pc[t] = "inc_store"
    /\ ulErrors' = [ulErrors EXCEPT !["VALIDATION_FAILED"] = Inc32(loc[t].ulCount)]
    /\ pc' = [pc EXCEPT ![t] = "idle"]
    /\ loc' = [loc EXCEPT ![t] = Returned(loc[t].op, "ERROR")]
    /\ UNCHANGED <<privateVars, ulStats, osalVars, shmVars, ghostVars, nFaults>>

(***************************************************************************)
(* iPLL_ClearStatistics, iPLL_PrintStatistics                              *)
(***************************************************************************)
\* the two tables after pvOSAL_MemSet( ..., 0, sizeof( ... ) )
ClearedStats == [k \in PLL_STATS |-> 0]
ClearedErrors == [k \in PLL_ERRORS |-> 0]

\* mutant: the test of iIsInitialised is missing
ClearStatisticsValidNoInitTest == FirewallsOK

\* the validation of iPLL_ClearStatistics
ClearStatisticsValid == FirewallsOK /\ iIsInitialised = TRUE

iPLL_ClearStatistics(t) ==
    /\ CallStart(t, "ClearStatistics", 0, <<>>)
    /\ UNCHANGED <<privateVars, osalVars, shmVars, nFaults>>
    /\ IF ClearStatisticsValid
       THEN /\ ulStats' = ClearedStats
            /\ ulErrors' = ClearedErrors
            /\ loc' = [loc EXCEPT ![t] = Returned("ClearStatistics", "OK")]
            /\ UNCHANGED pc
       ELSE /\ ValidationFailedCall(t, "ClearStatistics")
            /\ UNCHANGED counterVars

\* the counters are rendered with PLL_INF; no state of the module changes
iPLL_PrintStatistics(t) ==
    /\ CallStart(t, "PrintStatistics", 0, <<>>)
    /\ UNCHANGED <<privateVars, counterVars, osalVars, shmVars, nFaults>>
    /\ IF FirewallsOK
       THEN /\ loc' = [loc EXCEPT ![t] = Returned("PrintStatistics", "OK")]
            /\ UNCHANGED pc
       ELSE ValidationFailedCall(t, "PrintStatistics")

(***************************************************************************)
(* iPLL_ClearLog                                                           *)
(***************************************************************************)
\* the ring after pvOSAL_MemSet( ulLogBufStartAddr, 0, ulLen ): the entries
\* that lie within the first ulLen bytes are zeroed
ClearedLog(ring, ulLen) ==
    [i \in Slots |-> IF (i + 1) * PLL_LOG_ENTRY_SIZE <= ulLen THEN <<>> ELSE ring[i]]

\* mutant: the declared length is not tested
LogBufferLenUnchecked(ulLen) == TRUE

\* if( PLL_LOG_BUF_LEN >= xLogMsg.ulLogMsgBufferLen )
LogBufferLenValid(ulLen) == PLL_LOG_BUF_LEN >= ulLen

iPLL_ClearLog(t) ==
    /\ CallStart(t, "ClearLog", 0, <<>>)
    /\ UNCHANGED <<privateVars, ulStats, osalVars, shmLogIdx, ulLogMsgBufferLen>>
    /\ IF FirewallsOK /\ iIsInitialised = TRUE
       THEN /\ UNCHANGED pc
            /\ \E ok \in BOOLEAN :
                 /\ Outcome(ok)
                 /\ IF ok
                    THEN /\ UNCHANGED ulErrors
                         /\ IF LogBufferLenValid(ulLogMsgBufferLen)
                            THEN /\ shmLog' = ClearedLog(shmLog, ulLogMsgBufferLen)
                                 /\ loc' = [loc EXCEPT ![t] =
                                              Returned("ClearLog", "OK")]
                            ELSE \* no counter is raised
                                 /\ loc' = [loc EXCEPT ![t] =
                                              Returned("ClearLog", "ERROR")]
                                 /\ UNCHANGED shmLog
                    ELSE /\ ulErrors' = IncCounter(ulErrors, "LOAD_PT_FAILED")
                         /\ loc' = [loc EXCEPT ![t] = Returned("ClearLog", "ERROR")]
                         /\ UNCHANGED shmLog
       ELSE /\ ValidationFailedCall(t, "ClearLog")
            /\ UNCHANGED <<ulErrors, shmLog, nFaults>>

(***************************************************************************)
(* iPLL_DumpFsblLog                                                        *)
(*                                                                         *)
(* The records are written with PLL_LOG; what is left of the call is the   *)
(* allocation of the buffer and its release.                               *)
(***************************************************************************)
iPLL_DumpFsblLog(t) ==
    /\ CallStart(t, "DumpFsblLog", 0, <<>>)
    /\ UNCHANGED <<privateVars, osalVars, shmVars>>
    /\ IF FirewallsOK /\ iIsInitialised = TRUE
       THEN /\ UNCHANGED pc
            /\ \E ok \in BOOLEAN :
                 /\ Outcome(ok)
                 /\ IF ok
                    THEN /\ ulStats' = IncCounter(IncCounter(ulStats, "MALLOC"), "FREE")
                         /\ loc' = [loc EXCEPT ![t] = Returned("DumpFsblLog", "OK")]
                         /\ UNCHANGED ulErrors
                    ELSE /\ ulErrors' = IncCounter(ulErrors, "MALLOC_FAILED")
                         /\ loc' = [loc EXCEPT ![t] = Returned("DumpFsblLog", "ERROR")]
                         /\ UNCHANGED ulStats
       ELSE /\ ValidationFailedCall(t, "DumpFsblLog")
            /\ UNCHANGED <<counterVars, nFaults>>

(***************************************************************************)
(* iPLL_DumpLog                                                            *)
(*                                                                         *)
(* The first step loads the partition table.  Each turn of the loop that   *)
(* follows is a call of vPLL_Printf, which runs the steps of vPLL_Printf   *)
(* above and returns to the loop: three lines of heading, then the         *)
(* non-empty entries of the shared ring in ascending index order.          *)
(***************************************************************************)
\* the three lines of the heading; their characters are 201 ..
DumpLogHeading == << <<201>>, <<202>>, <<203>> >>

\* the number of vPLL_Printf calls before the loop over the entries
DumpLogHeadingLen == Len(DumpLogHeading)

\* vsnprintf( pcBuffer, PRINT_BUFFER_SIZE, "%s\r\n", xMsg.pcBuff )
DumpLogLine(entry) == Take(entry \o <<CR, LF>>, PRINT_BUFFER_SIZE - 1)

iPLL_DumpLog(t) ==
    /\ CallStart(t, "DumpLog", 0, <<>>)
    /\ UNCHANGED <<privateVars, ulStats, osalVars, shmVars>>
    /\ IF FirewallsOK /\ iIsInitialised = TRUE
       THEN \E ok \in BOOLEAN :
              /\ Outcome(ok)
              /\ IF ok
                 THEN /\ pc' = [pc EXCEPT ![t] = "dl_next"]
                      /\ loc' = [loc EXCEPT ![t] = [NoLocals EXCEPT !.op = "DumpLog"]]
                      /\ UNCHANGED ulErrors
                 ELSE /\ ulErrors' = IncCounter(ulErrors, "LOAD_PT_FAILED")
                      /\ loc' = [loc EXCEPT ![t] = Returned("DumpLog", "ERROR")]
                      /\ UNCHANGED pc
       ELSE /\ ValidationFailedCall(t, "DumpLog")
            /\ UNCHANGED <<ulErrors, nFaults>>

\* the call of vPLL_Printf with the rendered text pcBuffer by iPLL_DumpLog:
\* vPLL_Printf validates the firewalls once more and goes on to its pend, or
\* raises PLL_ERRORS_VALIDATION_FAILED and returns
DumpLog_Printf(t, pcBuffer) ==
    IF FirewallsOK
    THEN /\ pc' = [pc EXCEPT ![t] = "prt_pend"]
         /\ loc' = [loc EXCEPT ![t].pcBuffer = pcBuffer, ![t].i = @ + 1]
         /\ UNCHANGED ulErrors
    ELSE /\ ulErrors' = IncCounter(ulErrors, "VALIDATION_FAILED")
         /\ loc' = [loc EXCEPT ![t].i = @ + 1]
         /\ UNCHANGED pc

\* the next vPLL_Printf of iPLL_DumpLog, an empty entry passed over, or the
\* return; loc[t].i counts the lines of the heading and the entries done
DumpLog_Next(t) ==
    /\ pc[t] = "dl_next"
    /\ UNCHANGED <<privateVars, ulStats, osalVars, shmVars, ghostVars, nFaults>>
    /\ IF loc[t].i < DumpLogHeadingLen
       THEN DumpLog_Printf(t, DumpLogHeading[loc[t].i + 1])
       ELSE IF loc[t].i < DumpLogHeadingLen + PLL_LOG_MAX_RECS
       THEN IF shmLog[loc[t].i - DumpLogHeadingLen] # <<>>
            THEN DumpLog_Printf(t, DumpLogLine(shmLog[loc[t].i - DumpLogHeadingLen]))
            ELSE /\ loc' = [loc EXCEPT ![t].i = @ + 1]
                 /\ UNCHANGED <<pc, ulErrors>>
       ELSE /\ pc' = [pc EXCEPT ![t] = "idle"]
            /\ loc' = [loc EXCEPT ![t] = Returned("DumpLog", "OK")]
            /\ UNCHANGED ulErrors

(***************************************************************************)
(* The specifications                                                      *)
(***************************************************************************)
\* a public call of task t
Call(t) ==
    \/ \E xOut, xLog \in LevelArgs : iPLL_Initialise(t, xOut, xLog)
    \/ \E op \in LevelOps, xLevel \in LevelArgs, isNull \in BOOLEAN :
          /\ IsSetter(op) => ~isNull
          /\ ~IsSetter(op) => xLevel = 0
          /\ LevelCall(t, op, xLevel, isNull)
    \/ \E xLevel \in LevelArgs, fmt \in Formats : vPLL_Output(t, xLevel, fmt)
    \/ \E fmt \in Formats : vPLL_Printf(t, fmt)
    \/ iPLL_SendBootRecords(t)

\* a step of the running call of task t
Run(t) ==
    \/ Level_TakeAndAccess(t)
    \/ Level_Release(t)
    \/ Output_PendOk(t)
    \/ Output_PendTimeout(t)
    \/ Output_Print(t)
    \/ Output_Log(t)
    \/ Semaphore_Post(t)
    \/ Printf_PendOk(t)
    \/ Printf_PendTimeout(t)
    \/ LogCollect_Entry(t)
    \/ LogCollect_Store(t)
    \/ LogCollect_BootStore(t)
    \/ SendBootRecords_Fsbl(t)
    \/ SendBootRecords_Boot(t)

\* tasks calling concurrently
Next == \E t \in Tasks : (nCalls < MaxCalls /\ Call(t)) \/ Run(t)

Spec == Init /\ [][Next]_vars

\* one task calling
NextSeq == \E t \in SeqTasks : (nCalls < MaxCallsSeq /\ Call(t)) \/ Run(t)

SpecSeq == Init /\ [][NextSeq]_vars

\* the two tasks, task 1 scheduled fairly: a step of task 1 that stays possible
\* is taken; task 2 may stop anywhere, the permit in its hands
SpecLive == Init /\ [][Next]_vars /\ WF_vars(Run(1))

\* a public call of the operations on the log region and on the counters
CallMore(t) ==
    \/ iPLL_DumpLog(t)
    \/ iPLL_ClearLog(t)
    \/ iPLL_DumpFsblLog(t)
    \/ iPLL_PrintStatistics(t)
    \/ iPLL_ClearStatistics(t)

\* a step of the running call of one of them
RunMore(t) ==
    \/ DumpLog_Next(t)
    \/ IncError_Store(t)

\* one task calling any operation, the descriptor declaring any length
NextAll ==
    \E t \in SeqTasks :
       \/ nCalls < MaxCallsAll /\ (Call(t) \/ CallMore(t))
       \/ Run(t)
       \/ RunMore(t)

SpecAll == InitAll /\ [][NextAll]_vars

\* a call that touches the counters only; the levels passed to
\* iPLL_Initialise play no part
CallCounters(t) ==
    \/ iPLL_Initialise(t, 0, 0)
    \/ iPLL_PrintStatistics(t)
    \/ iPLL_ClearStatistics(t)

\* tasks calling these concurrently
NextCounters ==
    \E t \in Tasks :
       \/ nCalls < MaxCallsCounters /\ CallCounters(t)
       \/ IncError_Store(t)

SpecCounters == Init /\ [][NextCounters]_vars

\* the texts passed to iLogCollect: every string that fits the print buffer,
\* of a character and the two line terminators
RECURSIVE Strings(_)
Strings(n) ==
    IF n = 0 THEN { <<>> }
    ELSE Strings(n - 1) \cup
         { Append(s, c) : s \in { x \in Strings(n - 1) : Len(x) = n - 1 },
                          c \in {1, CR, LF} }

LineInputs == Strings(PRINT_BUFFER_SIZE - 1)

\* iLogCollect( pcBuf ) called by task t on its own
LogCollect(t, pcBuf) ==
    /\ CallStart(t, "LogCollect", 0, <<>>)
    /\ LogCollectCall(t, [NoLocals EXCEPT !.op = "LogCollect"], pcBuf, "idle")
    /\ UNCHANGED <<privateVars, counterVars, osalVars, shmVars, nFaults>>

\* one task calling iLogCollect with any text, before and after
\* iPLL_SendBootRecords
NextRecord ==
    \E t \in SeqTasks :
       \/ nCalls < MaxCallsRecord /\ \E pcBuf \in LineInputs : LogCollect(t, pcBuf)
       \/ nCalls < MaxCallsRecord /\ iPLL_SendBootRecords(t)
       \/ LogCollect_Entry(t)
       \/ LogCollect_Store(t)
       \/ LogCollect_BootStore(t)
       \/ SendBootRecords_Fsbl(t)
       \/ SendBootRecords_Boot(t)

SpecRecord == Init /\ [][NextRecord]_vars

\* a write of other code runs over one or both firewalls of xLocalData; the
\* fields between them are left as they are
FirewallOverrun ==
    /\ FirewallsOK
    /\ \E upper \in {UPPER_FIREWALL, OVERWRITTEN},
          lower \in {LOWER_FIREWALL, OVERWRITTEN} :
         /\ upper # UPPER_FIREWALL \/ lower # LOWER_FIREWALL
         /\ ulUpperFirewall' = upper
         /\ ulLowerFirewall' = lower
    /\ UNCHANGED <<iIsInitialised, xOutputLevel, xLoggingLevel, pcBootLogs,
                   iBootLogIndex, iIsLogReady, pvMtxHdl, pvSemHdl, counterVars,
                   osalVars, shmVars, pc, loc, ghostVars, nFaults>>

\* one task calling any operation, the firewalls overrun at any moment
NextGuard ==
    \/ \E t \in SeqTasks :
          \/ nCalls < MaxCallsAll /\ (Call(t) \/ CallMore(t))
          \/ Run(t)
          \/ RunMore(t)
    \/ FirewallOverrun

SpecGuard == Init /\ [][NextGuard]_vars

(***************************************************************************)
(* Properties                                                              *)
(***************************************************************************)
\* the step is the first step of a public call `op` of task t
IsCall(t, op) ==
    /\ pc[t] = "idle"
    /\ nCalls' = nCalls + 1
    /\ lastCaller' = t
    /\ loc'[t].op = op

\* the pend of vPLL_Output of task t ends without a permit
OutputPendFails(t) ==
    /\ pc[t] = "out_pend"
    /\ pc'[t] # "out_pend"
    /\ semCount' = semCount

\* where a task holds the permit of the semaphore in vPLL_Output
OutputGuardedPcs == {"out_print", "out_log", "out_post"} \cup LogCollectPcs

\* C1 - fallback on contention: when the pend of an Emit on an initialised
\* module does not succeed, the call returns having written the rendered message
\* to the console sink exactly once, and neither the local ring and its index
\* nor the shared ring and its index are touched by the call (its first step
\* touches none of them either).
C1_FallbackOnContention ==
    [][\A t \in Tasks :
         /\ OutputPendFails(t) =>
              /\ pc'[t] = "idle"
              /\ printed[t] = <<>>
              /\ printed'[t] = <<loc[t].pcBuffer>>
              /\ UNCHANGED <<pcBootLogs, iBootLogIndex, shmLog, shmLogIdx>>
         /\ (IsCall(t, "Output") /\ pc'[t] = "out_pend") =>
              /\ printed'[t] = <<>>
              /\ UNCHANGED <<pcBootLogs, iBootLogIndex, shmLog, shmLogIdx>>]_vars

\* C1 witness: an Emit has returned from the timeout branch, its message on the
\* console, while another task holds the permit
C1_Witness ==
    \E t, u \in Tasks :
       /\ t # u
       /\ pc[t] = "idle" /\ loc[t].op = "Output"
       /\ Len(printed[t]) = 1
       /\ ulStats["NON_THREAD_SAFE_PRINT_COUNT"] = 1
       /\ pc[u] \in OutputGuardedPcs /\ loc[u].op = "Output"

\* the level gates of an Emit of task t that holds the permit: the console sink
\* is written exactly when outputLevel >= level, and the persistent log is
\* attempted exactly when loggingLevel >= level
GatesWithPermit(t) ==
    /\ (pc[t] = "out_print" /\ pc'[t] # "out_print") =>
          IF xOutputLevel >= loc[t].xLevel
          THEN printed'[t] = Append(printed[t], loc[t].pcBuffer)
          ELSE printed'[t] = printed[t]
    /\ (pc[t] = "out_log" /\ pc'[t] # "out_log") =>
          IF xLoggingLevel >= loc[t].xLevel
          THEN pc'[t] = "lc_entry" /\ loc'[t].pcBuf = loc[t].pcBuffer
          ELSE pc'[t] = "out_post"

\* the level gates of an Emit of task t whose pend does not succeed
GatesWithoutPermit(t) ==
    OutputPendFails(t) =>
       /\ xOutputLevel < loc[t].xLevel => printed'[t] = printed[t]
       /\ xLoggingLevel >= loc[t].xLevel => pc'[t] = "lc_entry"

\* C2 as stated - level ordering whatever the outcome of the pend: a sink whose
\* threshold is below the level of the Emit is never written, one whose
\* threshold is at or above it is always attempted.
C2_LevelOrderingAnyPend ==
    [][\A t \in Tasks : GatesWithPermit(t) /\ GatesWithoutPermit(t)]_vars

\* C2 amended - level ordering holds for an Emit whose pend succeeds; one whose
\* pend does not succeed writes the console whatever outputLevel is and never
\* attempts the persistent log whatever loggingLevel is.
C2_LevelOrderingWithPermit ==
    [][\A t \in Tasks :
         /\ GatesWithPermit(t)
         /\ OutputPendFails(t) =>
              /\ printed'[t] # printed[t]
              /\ pc'[t] = "idle"]_vars

\* C2 witness: an Emit holding the permit kept its message from the console
\* (outputLevel below its level) and recorded it (loggingLevel at least its level)
C2_Witness ==
    \E t \in Tasks :
       /\ pc[t] = "out_post"
       /\ printed[t] = <<>>
       /\ loc[t].lcStatus = "OK"
       /\ xOutputLevel < loc[t].xLevel
       /\ xLoggingLevel >= loc[t].xLevel

\* C4 - the transport-ready latch is one-way: false initially, only a
\* BeginTransport call changes it, and once true no step makes it false.
C4_ReadyLatch ==
    /\ iIsLogReady = FALSE
    /\ [][/\ iIsLogReady = TRUE => iIsLogReady' = TRUE
          /\ iIsLogReady' # iIsLogReady =>
                \E t \in Tasks : IsCall(t, "SendBootRecords")]_vars

\* C4 witness: a second BeginTransport runs after a first has completed, and the
\* latch is still set
C4_Witness ==
    /\ iIsLogReady = TRUE
    /\ nSendDone >= 1
    /\ \E t \in Tasks : pc[t] = "sbr_fsbl"

\* C8 as stated - the persistent-log write is serialised: never are two tasks
\* inside iLogCollect at once.
C8_RecordLineSerialised ==
    Cardinality({t \in Tasks : pc[t] \in LogCollectPcs}) <= 1

\* C10 - double init: an Initialise call on an initialised module returns
\* ERROR and leaves initialized, the two levels, the handles, the local ring and
\* its index and the latch as they are, and creates no primitive.
C10_DoubleInit ==
    [][\A t \in Tasks :
         (IsCall(t, "Initialise") /\ iIsInitialised = TRUE) =>
            /\ loc'[t].ret = "ERROR"
            /\ UNCHANGED <<iIsInitialised, xOutputLevel, xLoggingLevel, pvMtxHdl,
                           pvSemHdl, pcBootLogs, iBootLogIndex, iIsLogReady,
                           nHandles, semCount, mtxOwner>>]_vars

\* C10 witness: a second Initialise has failed on the initialised module
C10_Witness ==
    \E t \in Tasks :
       /\ iIsInitialised = TRUE
       /\ pc[t] = "idle" /\ loc[t].op = "Initialise" /\ loc[t].ret = "ERROR"
       /\ nFaults = 0
       /\ ulErrors["VALIDATION_FAILED"] >= 1

\* C3 as stated - one-way transport: a BeginTransport call after a completed
\* one does not write the shared write index again.
C3_NoSecondReset ==
    [][\A t \in Tasks :
         (IsCall(t, "SendBootRecords") /\ nSendDone >= 1) =>
            shmLogIdx' = shmLogIdx]_vars

\* task t is at the return of iPLL_SendBootRecords, both loops done
SendBootRecordsAtReturn(t) ==
    pc[t] = "sbr_boot" /\ loc[t].i = PLL_LOG_MAX_RECS

\* the entries of a ring read in ascending index order, empty entries left out
ReadRing(ring) ==
    SelectSeq([k \in 1 .. PLL_LOG_MAX_RECS |-> ring[k - 1]], LAMBDA e : e # <<>>)

\* the non-empty lines recorded while buffering, oldest first
BufferedLines == SelectSeq(bootHist, LAMBDA e : e # <<>>)

\* the bootloader records a drain feeds: every token of the blob but the last
DrainedFsbl(blob) ==
    LET toks == Tokens(blob)
    IN  [k \in 1 .. (Len(toks) - 1) |-> TrimLine(toks[k])]

C7_RingWrap ==
    LET n == Len(bootHist)
        oldest == IF n > PLL_LOG_MAX_RECS THEN n - PLL_LOG_MAX_RECS + 1 ELSE 1
    IN  /\ \A k \in oldest .. n : pcBootLogs[k % PLL_LOG_MAX_RECS] = bootHist[k]
        /\ (n = PLL_LOG_MAX_RECS + 1 /\ bootHist[1] # <<>>) =>
              \A i \in Slots : pcBootLogs[i] # bootHist[1]
        /\ n < PLL_LOG_MAX_RECS =>
              \A i \in Slots : i > n => pcBootLogs[i] = <<>>

\* C7 witness: PLL_LOG_MAX_RECS + 1 non-empty lines were recorded while
\* buffering
C7_Witness ==
    /\ Len(bootHist) = PLL_LOG_MAX_RECS + 1
    /\ Len(BufferedLines) = PLL_LOG_MAX_RECS + 1
    /\ iIsLogReady = FALSE

\* task t is inside an Emit or a PlainEmit
InEmit(t) == pc[t] # "idle" /\ loc[t].op \in {"Output", "Printf"}

\* C9 - Emit and PlainEmit never block for ever: under fair scheduling of the
\* caller a call returns, and a call whose pend does not succeed returns with
\* its message on the console, whatever the other task does with the permit.
C9_EmitReturns ==
    /\ InEmit(1) ~> (pc[1] = "idle")
    /\ [][(pc[1] \in {"out_pend", "prt_pend"} /\ pc'[1] = "idle") =>
             printed'[1] = <<loc[1].pcBuffer>>]_vars

\* C9 witness: task 1 has returned from a call that found the permit taken, and
\* task 2 still holds the permit
C9_Witness ==
    /\ pc[1] = "idle" /\ loc[1].op \in {"Output", "Printf"}
    /\ Len(printed[1]) = 1
    /\ semCount = 0
    /\ pc[2] \in OutputGuardedPcs \cup {"prt_post"}
    /\ ulStats["NON_THREAD_SAFE_PRINT_COUNT"] >= 1

\* counter k of f is raised by one (modulo the width of the counters) and no
\* other counter of f changes
RaisedOnly(f, g, k) ==
    g = [f EXCEPT ![k] = (@ + 1) % (2 ^ CounterBits)]

LogSinkUntouched(t) ==
    /\ pc'[t] \notin LogCollectPcs
    /\ UNCHANGED <<pcBootLogs, iBootLogIndex, shmLog, shmLogIdx>>

\* C13 - PlainEmit with valid sentinels and a valid format writes the rendered
\* message to the console exactly once on each of its paths (permit taken,
\* timeout, module not initialised), whatever the two levels are, never enters
\* the persistent-log sink, and neither pends nor posts when the module is not
\* initialised.
C13_PlainEmit ==
    [][\A t \in Tasks :
         /\ (IsCall(t, "Printf") /\ ulErrors' = ulErrors) =>
               /\ LogSinkUntouched(t)
               /\ UNCHANGED semCount
               /\ IF iIsInitialised = TRUE
                  THEN pc'[t] = "prt_pend" /\ printed'[t] = <<>>
                  ELSE /\ pc'[t] = "idle"
                       /\ \E fmt \in Formats :
                            /\ ~fmt.null
                            /\ printed'[t] = <<Render(fmt.str, nMsgs')>>
                       /\ ulStats'["PEND_SEMAPHORE"] = ulStats["PEND_SEMAPHORE"]
                       /\ ulStats'["POST_SEMAPHORE"] = ulStats["POST_SEMAPHORE"]
         /\ (pc[t] = "prt_pend" /\ pc'[t] # "prt_pend") =>
               /\ LogSinkUntouched(t)
               /\ pc'[t] \in {"prt_post", "idle"}
               /\ printed[t] = <<>>
               /\ printed'[t] = <<loc[t].pcBuffer>>
         /\ (pc[t] = "prt_post" /\ pc'[t] # "prt_post") =>
               /\ LogSinkUntouched(t)
               /\ pc'[t] = "idle"
               /\ printed'[t] = printed[t]]_vars

\* C13 witness: a PlainEmit has returned from the timeout branch on a module
\* whose output level admits nothing but level 0, its message on the console
C13_Witness ==
    \E t, u \in Tasks :
       /\ t # u
       /\ pc[t] = "idle" /\ loc[t].op = "Printf"
       /\ Len(printed[t]) = 1
       /\ iIsInitialised = TRUE /\ xOutputLevel = 0
       /\ semCount = 0 /\ pc[u] \in OutputGuardedPcs \cup {"prt_post"}
       /\ ulStats["NON_THREAD_SAFE_PRINT_COUNT"] = 1

\* the threshold field a setter writes
SetterField(op) == IF op = "SetOutputLevel" THEN xOutputLevel ELSE xLoggingLevel

\* C14 - in SetOutputLevel and SetLoggingLevel a failed mutex take returns
\* ERROR, raises the mutex-take error counter and leaves the threshold as it
\* was; a failed mutex release returns ERROR and raises the mutex-release error
\* counter while the threshold holds the new value.
C14_SetterMutexFailure ==
    [][\A t \in Tasks :
         (loc[t].op \in {"SetOutputLevel", "SetLoggingLevel"}
            /\ pc'[t] # pc[t] /\ nFaults' # nFaults) =>
            /\ pc[t] = "lvl_take" =>
                  /\ pc'[t] = "idle" /\ loc'[t].ret = "ERROR"
                  /\ RaisedOnly(ulErrors, ulErrors', "MUTEX_TAKE_FAILED")
                  /\ ulStats' = ulStats
                  /\ UNCHANGED <<xOutputLevel, xLoggingLevel>>
            /\ pc[t] = "lvl_release" =>
                  /\ pc'[t] = "idle" /\ loc'[t].ret = "ERROR"
                  /\ RaisedOnly(ulErrors, ulErrors', "MUTEX_RELEASE_FAILED")
                  /\ ulStats' = ulStats
                  /\ SetterField(loc[t].op) = loc[t].xLevel
                  /\ UNCHANGED <<xOutputLevel, xLoggingLevel>>]_vars

\* C14 witness: a SetOutputLevel has returned ERROR from a failed release, the
\* new level written over a different one
C14_Witness ==
    \E t \in Tasks :
       /\ pc[t] = "idle" /\ loc[t].op = "SetOutputLevel" /\ loc[t].ret = "ERROR"
       /\ ulErrors["MUTEX_RELEASE_FAILED"] = 1
       /\ ulStats["LEVEL_CHANGE"] = 1
       /\ mtxOwner = t
       /\ xOutputLevel # xLoggingLevel

\* C15 - a setter with a level outside the enumeration or a getter with a null
\* slot returns ERROR, raises the validation-failed counter only, never takes
\* the mutex and leaves both thresholds as they are; the calls that go on to
\* the mutex carry a level inside the enumeration or a non-null slot, so a
\* setter writes no level outside it.
C15_LevelArgument ==
    [][\A t \in Tasks : \A op \in LevelOps :
         /\ (IsCall(t, op) /\ pc'[t] = "idle") =>
               /\ loc'[t].ret = "ERROR"
               /\ RaisedOnly(ulErrors, ulErrors', "VALIDATION_FAILED")
               /\ ulStats' = ulStats
               /\ UNCHANGED <<xOutputLevel, xLoggingLevel, mtxOwner>>
         /\ (IsCall(t, op) /\ pc'[t] # "idle") =>
               /\ pc'[t] = "lvl_take"
               /\ FirewallsOK /\ iIsInitialised = TRUE
               /\ IF op \in {"SetOutputLevel", "SetLoggingLevel"}
                  THEN loc'[t].xLevel \in 0 .. (MAX_PLL_OUTPUT_LEVEL - 1)
                  ELSE loc'[t].isNull = FALSE
               /\ UNCHANGED <<xOutputLevel, xLoggingLevel, mtxOwner, counterVars>>
         /\ (pc[t] = "lvl_take" /\ pc'[t] # pc[t] /\ loc[t].op = op) =>
               /\ xOutputLevel' # xOutputLevel =>
                     /\ op = "SetOutputLevel"
                     /\ xOutputLevel' \in 0 .. (MAX_PLL_OUTPUT_LEVEL - 1)
               /\ xLoggingLevel' # xLoggingLevel =>
                     /\ op = "SetLoggingLevel"
                     /\ xLoggingLevel' \in 0 .. (MAX_PLL_OUTPUT_LEVEL - 1)]_vars

\* C15 witness: on an initialised module a level call has failed its validation
\* and nothing else has failed
C15_Witness ==
    \E t \in Tasks : \E op \in LevelOps :
       /\ iIsInitialised = TRUE
       /\ pc[t] = "idle" /\ loc[t].op = op /\ loc[t].ret = "ERROR"
       /\ nCalls = 2 /\ nFaults = 0
       /\ ulStats["INIT_OVERALL_COMPLETE"] = 1
       /\ ulErrors["VALIDATION_FAILED"] = 1

\* C17 as stated - a line whose RecordLine fails while logging is ready is
\* dropped: the failing step returns ERROR to the caller of iLogCollect, raises
\* the error counter of its kind (LOAD_PT_FAILED at the descriptor read,
\* STORE_PT_FAILED at the entry write), leaves the shared index, the shared
\* ring and the local ring as they are, and no later step writes the dropped
\* line into the shared ring.
C17_LineDropped ==
    [][/\ \A t \in Tasks :
            (pc[t] \in {"lc_entry", "lc_store"} /\ pc'[t] # pc[t]
               /\ dropped' # dropped) =>
               /\ loc'[t].lcStatus = "ERROR"
               /\ ulErrors'[IF pc[t] = "lc_entry" THEN "LOAD_PT_FAILED"
                                                  ELSE "STORE_PT_FAILED"]
                    = Inc32(ulErrors[IF pc[t] = "lc_entry" THEN "LOAD_PT_FAILED"
                                                           ELSE "STORE_PT_FAILED"])
               /\ ulErrors'[IF pc[t] = "lc_entry" THEN "STORE_PT_FAILED"
                                                  ELSE "LOAD_PT_FAILED"]
                    = ulErrors[IF pc[t] = "lc_entry" THEN "STORE_PT_FAILED"
                                                     ELSE "LOAD_PT_FAILED"]
               /\ ulStats' = ulStats
               /\ shmLogIdx' = shmLogIdx /\ shmLog' = shmLog
               /\ pcBootLogs' = pcBootLogs /\ iBootLogIndex' = iBootLogIndex
       /\ \A d \in dropped : \A i \in Slots :
            (d.line # <<>> /\ shmLog'[i] = d.line) => shmLog[i] = d.line]_vars

\* the call step of task t ends in the failed validation: the call has
\* returned with PLL_ERRORS_VALIDATION_FAILED raised, or it has loaded that
\* counter and returns ERROR with the store; nothing else has changed and
\* nothing is written to the console
ValidationFails(t) ==
    /\ \/ /\ pc'[t] = "idle"
          /\ loc'[t].ret \in {"ERROR", "none"}
          /\ ulErrors' = IncCounter(ulErrors, "VALIDATION_FAILED")
       \/ /\ pc'[t] = "inc_store"
          /\ ulErrors' = ulErrors
    /\ printed'[t] = <<>>
    /\ UNCHANGED <<privateVars, ulStats, osalVars, shmVars, nFaults>>

\* the operations that C12 lists as guarded by iIsInitialised, BeginTransport
\* left out
GuardedOps ==
    LevelOps \cup {"Output", "DumpLog", "ClearLog", "DumpFsblLog"}

\* a call step of vPLL_Printf or iPLL_PrintStatistics of task t on a module
\* that is not initialised has its effect: a message that passes the checks
\* of the format is printed and counted, the statistics call returns OK
UnguardedEffect(t) ==
    /\ (IsCall(t, "Printf") /\ nMsgs' # nMsgs) =>
          /\ Len(printed'[t]) = 1
          /\ ulStats' = IncCounter(ulStats, "NON_THREAD_SAFE_PRINT_COUNT")
          /\ ulErrors' = ulErrors
    /\ IsCall(t, "PrintStatistics") => loc'[t].ret = "OK"

\* C12 as stated - while iIsInitialised is FALSE the setters and getters,
\* Emit, DumpLog, ClearLog, DumpBootloaderLog and BeginTransport fail in the
\* validation without effect, and PlainEmit, PrintStatistics and
\* ClearStatistics have their effect.
C12_GuardAsStated ==
    [][\A t \in Tasks :
         iIsInitialised = FALSE =>
            /\ (\E op \in GuardedOps \cup {"SendBootRecords"} : IsCall(t, op)) =>
                  ValidationFails(t)
            /\ UnguardedEffect(t)
            /\ IsCall(t, "ClearStatistics") =>
                  /\ loc'[t].ret = "OK"
                  /\ ulStats' = ClearedStats /\ ulErrors' = ClearedErrors]_vars

\* C12 - while iIsInitialised is FALSE the setters and getters, Emit, DumpLog,
\* ClearLog, DumpBootloaderLog and ClearStatistics fail in the validation
\* without effect; PlainEmit and PrintStatistics have their effect, and so has
\* BeginTransport: it writes 0 to the shared index, sets iIsLogReady and goes
\* on to feed the records.
C12_Guard ==
    [][\A t \in Tasks :
         iIsInitialised = FALSE =>
            /\ (\E op \in GuardedOps \cup {"ClearStatistics"} : IsCall(t, op)) =>
                  ValidationFails(t)
            /\ UnguardedEffect(t)
            /\ IsCall(t, "SendBootRecords") =>
                  /\ shmLogIdx' = 0
                  /\ iIsLogReady' = TRUE
                  /\ pc'[t] = "sbr_fsbl"
                  /\ ulErrors' = ulErrors]_vars

\* on a module that is not initialised BeginTransport has set the latch and a
\* ClearStatistics call has returned ERROR
C12_Witness ==
    /\ iIsInitialised = FALSE
    /\ iIsLogReady = TRUE
    /\ nSendDone >= 1
    /\ \E t \in Tasks :
         /\ pc[t] = "idle" /\ loc[t].op = "ClearStatistics" /\ loc[t].ret = "ERROR"
         /\ ulErrors["VALIDATION_FAILED"] >= 1

\* the entry at index i of the shared ring lies within the first ulLen bytes
EntryWithin(i, ulLen) == (i + 1) * PLL_LOG_ENTRY_SIZE <= ulLen

\* C16 as stated - the local index stays in [0, PLL_LOG_MAX_RECS) and, once
\* BeginTransport has run, so does the shared index; a RecordLine advances
\* its index by one modulo PLL_LOG_MAX_RECS; and an entry is written into
\* the shared ring only within the byte length that the descriptor declares.
C16_RingBounds ==
    [][/\ iBootLogIndex' \in Slots
       /\ iIsLogReady' = TRUE => shmLogIdx' \in Slots
       /\ \A t \in Tasks :
            /\ (pc[t] = "lc_entry" /\ pc'[t] = "lb_store") =>
                  iBootLogIndex' = (iBootLogIndex + 1) % PLL_LOG_MAX_RECS
            /\ (pc[t] = "lc_store" /\ loc'[t].lcStatus = "OK") =>
                  /\ shmLogIdx' = (shmLogIdx + 1) % PLL_LOG_MAX_RECS
                  /\ EntryWithin(loc[t].ulLogIdx, ulLogMsgBufferLen)]_vars

\* the counters of the table f that differ in g
Counted(f, g) == { k \in DOMAIN f : g[k] # f[k] }

\* every counter of f is in g as it was or raised by one
RaisedByOne(f, g) ==
    \A k \in DOMAIN f : g[k] \in { f[k], (f[k] + 1) % (2 ^ CounterBits) }

\* the step is a call of iPLL_ClearStatistics that clears the tables
ClearsStatistics ==
    \E t \in Tasks : IsCall(t, "ClearStatistics") /\ loc'[t].ret = "OK"

MaxCount == 2 ^ CounterBits - 1

\* no task holds a value of the validation-failed counter that it loaded
\* before another task raised the counter
NoStaleLoad ==
    \A t \in Tasks :
       pc[t] = "inc_store" => loc[t].ulCount = ulErrors["VALIDATION_FAILED"]

\* C19 as stated - the counters saturate: a step that raises counters and
\* does not clear the tables leaves a counter that holds the largest value at
\* that value.
C19_Saturate ==
    [][(~ClearsStatistics /\ NoStaleLoad) =>
          /\ \A k \in PLL_STATS : ulStats[k] = MaxCount => ulStats'[k] = MaxCount
          /\ \A k \in PLL_ERRORS : ulErrors[k] = MaxCount => ulErrors'[k] = MaxCount]_vars

\* C20 as stated - the counters are monotonic: but for a step that clears
\* the tables, and for the wrap of a counter that holds the largest value, no
\* step of any task lowers a counter.
C20_Monotonic ==
    [][~ClearsStatistics =>
          /\ \A k \in PLL_STATS :
                ulStats'[k] >= ulStats[k] \/ ulStats[k] = MaxCount
          /\ \A k \in PLL_ERRORS :
                ulErrors'[k] >= ulErrors[k] \/ ulErrors[k] = MaxCount]_vars

\* C21 - ClearLog on an initialised module whose partition table loads: a
\* declared length above PLL_LOG_BUF_LEN makes the call return ERROR with the
\* shared ring and the shared index as they were; a length within the bound
\* makes it return OK with the entries inside the declared length zeroed, the
\* entries behind it and the shared index as they were; iIsLogReady plays no
\* part and is not changed.
C21_ClearLogBound ==
    [][\A t \in Tasks :
         (IsCall(t, "ClearLog") /\ iIsInitialised = TRUE /\ nFaults' = nFaults) =>
            /\ pc'[t] = "idle"
            /\ UNCHANGED <<shmLogIdx, ulLogMsgBufferLen, privateVars>>
            /\ IF ulLogMsgBufferLen > PLL_LOG_BUF_LEN
               THEN /\ loc'[t].ret = "ERROR"
                    /\ shmLog' = shmLog
               ELSE /\ loc'[t].ret = "OK"
                    /\ \A i \in Slots :
                         shmLog'[i] = IF EntryWithin(i, ulLogMsgBufferLen)
                                      THEN <<>> ELSE shmLog[i]]_vars

\* a ClearLog has returned OK with a descriptor that declares one entry less
\* than the ring: the first entry is zeroed, the last still holds its line
C21_Witness ==
    /\ ulLogMsgBufferLen < PLL_LOG_BUF_LEN
    /\ \E t \in Tasks :
         pc[t] = "idle" /\ loc[t].op = "ClearLog" /\ loc[t].ret = "OK"
    /\ shmLog[0] = <<>>
    /\ shmLog[PLL_LOG_MAX_RECS - 1] # <<>>

\* a firewall of xLocalData does not hold its constant
FirewallBroken ==
    ulUpperFirewall # UPPER_FIREWALL \/ ulLowerFirewall # LOWER_FIREWALL

\* the public operations
PublicOps ==
    LevelOps \cup {"Initialise", "Output", "Printf", "DumpLog", "ClearLog",
                   "DumpFsblLog", "SendBootRecords", "PrintStatistics",
                   "ClearStatistics"}

\* the step is a step of a task: a call, or a step inside one
TaskStep == pc' # pc \/ loc' # loc \/ nCalls' # nCalls

\* C22 - sentinel guard: a call that starts while a firewall does not hold
\* its constant fails in the validation (ERROR is returned where a status is
\* returned, nothing goes to the console or to a ring) and changes nothing of
\* the module but PLL_ERRORS_VALIDATION_FAILED; and no step of a task writes
\* a firewall.
C22_SentinelGuard ==
    [][/\ \A t \in Tasks :
            (FirewallBroken /\ \E op \in PublicOps : IsCall(t, op)) =>
               /\ ValidationFails(t)
               /\ loc'[t].ret = "none" <=> loc'[t].op \in {"Output", "Printf"}
                                           \/ pc'[t] = "inc_store"
               /\ UNCHANGED <<bootHist, nSendDone, dropped>>
       /\ \A t \in Tasks :
            (pc[t] = "inc_store" /\ pc'[t] = "idle") =>
               /\ loc'[t].ret = "ERROR"
               /\ UNCHANGED <<privateVars, ulStats, osalVars, shmVars, printed>>
       /\ TaskStep => UNCHANGED <<ulUpperFirewall, ulLowerFirewall>>]_vars

\* on an initialised module with the lower firewall overrun a setter has
\* returned ERROR and the validation-failed counter stands at one
C22_Witness ==
    /\ ulUpperFirewall = UPPER_FIREWALL
    /\ ulLowerFirewall # LOWER_FIREWALL
    /\ iIsInitialised = TRUE
    /\ nFaults = 0
    /\ \E t \in Tasks :
         pc[t] = "idle" /\ loc[t].op = "SetOutputLevel" /\ loc[t].ret = "ERROR"
    /\ ulErrors = [ClearedErrors EXCEPT !["VALIDATION_FAILED"] = 1]

\* task t is between a successful pend of vPLL_Output or vPLL_Printf and the
\* post that follows it
InGuarded(t) ==
    \/ pc[t] \in {"out_print", "out_log", "out_post", "prt_post"}
    \/ pc[t] \in LogCollectPcs /\ loc[t].lcRet = "out_logged"

\* the tasks that are there
Guarded == { t \in Tasks : InGuarded(t) }

\* C23 - pend and post are paired: a task enters the guarded section of Emit
\* or PlainEmit only with a pend that takes a permit, and leaves it only with
\* the one post attempt, which returns the call whether it gives the permit
\* back (counted as a stat) or fails (counted as an error); no permit appears
\* otherwise.  At most one task is in the guarded section, and while no post
\* has failed on an initialised module the permits and the tasks in the
\* section number one.
C23_PendPostPaired ==
    [][/\ Cardinality(Guarded') <= 1
       /\ (iIsInitialised' = TRUE /\ ulErrors'["POST_SEMAPHORE"] = 0) =>
             semCount' + Cardinality(Guarded') = 1
       /\ \A t \in Tasks :
            /\ (~InGuarded(t) /\ InGuarded(t)') =>
                  /\ pc[t] \in {"out_pend", "prt_pend"}
                  /\ semCount' = semCount - 1
                  /\ semCount' >= 0
            /\ (InGuarded(t) /\ ~InGuarded(t)') =>
                  /\ pc[t] \in {"out_post", "prt_post"}
                  /\ pc'[t] = "idle"
                  /\ \/ /\ semCount' = semCount + 1
                        /\ ulStats' = IncCounter(ulStats, "POST_SEMAPHORE")
                        /\ ulErrors' = ulErrors
                     \/ /\ semCount' = semCount
                        /\ ulErrors' = IncCounter(ulErrors, "POST_SEMAPHORE")
                        /\ ulStats' = ulStats
       /\ (semCount' > semCount /\ iIsInitialised = TRUE) =>
             \E t \in Tasks : InGuarded(t) /\ ~InGuarded(t)']_vars

\* a pend has succeeded and its post has failed: the call has returned, the
\* failure is counted and the permit is gone
C23_Witness ==
    /\ \A t \in Tasks : pc[t] = "idle"
    /\ ulStats["PEND_SEMAPHORE"] = 1
    /\ ulStats["POST_SEMAPHORE"] = 0
    /\ ulErrors["POST_SEMAPHORE"] = 1
    /\ semCount = 0

\* the number of tokens of the blob that the drain of task t has passed
FsblPassed(t) == Len(Tokens(loc[t].blob)) - Len(loc[t].recs)

\* C24 - BeginTransport splits the bootloader log at its line terminators and
\* feeds the tokens to iLogCollect in the order of the blob, each once, and
\* leaves the loop with the last token not fed: of k >= 1 tokens the first
\* k - 1 are recorded, of k <= 1 none.  Without a buffer no token is fed; the
\* used local slots are fed all the same and the call returns OK.
C24_FsblRecordsButLast ==
    [][\A t \in Tasks :
         /\ IsCall(t, "SendBootRecords") =>
               /\ pc'[t] = "sbr_fsbl"
               /\ loc'[t].alloc => FsblPassed(t)' = 0
               /\ ~loc'[t].alloc => nFaults' = nFaults + 1
         /\ (pc[t] = "sbr_fsbl" /\ pc'[t] = "lc_entry") =>
               /\ loc[t].alloc
               /\ FsblPassed(t) + 1 < Len(Tokens(loc[t].blob))
               /\ loc'[t].pcBuf = Tokens(loc[t].blob)[FsblPassed(t) + 1]
               /\ FsblPassed(t)' = FsblPassed(t) + 1
               /\ loc'[t].lcRet = "sbr_fsbl"
         /\ (pc[t] = "sbr_fsbl" /\ pc'[t] = "sbr_boot") =>
               /\ loc[t].alloc =>
                     FsblPassed(t) = IF Tokens(loc[t].blob) = <<>> THEN 0
                                     ELSE Len(Tokens(loc[t].blob)) - 1
               /\ loc'[t].i = 0
         /\ (pc[t] = "sbr_fsbl" /\ ~loc[t].alloc) => pc'[t] = "sbr_boot"
         /\ (pc[t] = "sbr_boot" /\ pc'[t] # pc[t]) =>
               IF loc[t].i < PLL_LOG_MAX_RECS
               THEN /\ pcBootLogs[loc[t].i] # <<>>
                    /\ pc'[t] = "lc_entry"
                    /\ loc'[t].pcBuf = pcBootLogs[loc[t].i]
               ELSE pc'[t] = "idle" /\ loc'[t].ret = "OK"
         /\ (pc[t] = "sbr_boot" /\ pc'[t] = pc[t]) =>
               /\ pcBootLogs[loc[t].i] = <<>>
               /\ loc'[t].i = loc[t].i + 1]_vars

\* a BeginTransport whose buffer could not be allocated has returned OK: no
\* buffer was counted, and the line buffered before it is in the shared ring
C24_Witness ==
    /\ nSendDone = 1
    /\ nFaults = 1
    /\ ulStats["MALLOC"] = 0
    /\ \E t \in Tasks :
         pc[t] = "idle" /\ loc[t].op = "SendBootRecords" /\ loc[t].ret = "OK"
    /\ BufferedLines # <<>>
    /\ shmLog[0] = BufferedLines[1]

\* the text s up to its first line terminator, and no more of it than an
\* entry holds: the longest such start of s
CutAndFit(s) ==
    CHOOSE p \in { Take(s, n) : n \in 0 .. Len(s) } :
       /\ \A i \in 1 .. Len(p) : ~IsDelim(p[i])
       /\ Len(p) <= PLL_LOG_ENTRY_SIZE - 1
       /\ \/ Len(p) = Len(s)
          \/ Len(p) = PLL_LOG_ENTRY_SIZE - 1
          \/ IsDelim(s[Len(p) + 1])

\* the entry holds no line terminator and fits PLL_LOG_ENTRY_SIZE - 1
EntryClean(entry) ==
    /\ Len(entry) <= PLL_LOG_ENTRY_SIZE - 1
    /\ \A i \in 1 .. Len(entry) : ~IsDelim(entry[i])

C26_PhasesApart ==
    [][\A t \in Tasks :
         (pc[t] \in LogCollectPcs /\ pc'[t] # pc[t]) =>
            /\ iIsLogReady = FALSE =>
                  /\ UNCHANGED <<shmLogIdx, shmLog, nFaults>>
                  /\ pc'[t] # "lc_store"
            /\ iIsLogReady = TRUE =>
                  UNCHANGED <<pcBootLogs, iBootLogIndex>>]_vars
====
